---- MODULE Spec2Model ----
(***************************************************************************)
(* Game ranking service of gamingPortal-server.                            *)
(*                                                                         *)
(* The stored document public/game-data.json holds the game collection.    *)
(* GameRankingService loads the whole document, changes one record,        *)
(* recomputes every rank and writes the whole document back.               *)
(*                                                                         *)
(* JavaScript values are tagged records [t, v] so that undefined, null,    *)
(* NaN, numbers, booleans and ISO date strings stay distinct, as they are   *)
(* for the operators ===, ||, ! and JSON.stringify that the code applies.  *)
(***************************************************************************)
EXTENDS Integers, Sequences, FiniteSets, TLC

\* Bounds of the model.
MaxPlayCount == 1
MaxTime == 2
MaxOps == 2

---------------------------------------------------------------------------
\* JavaScript values.
Undefined == [t |-> "undefined", v |-> 0]
Null == [t |-> "null", v |-> 0]
NaN == [t |-> "NaN", v |-> 0]
Num(n) == [t |-> "number", v |-> n]
Bool(b) == [t |-> "boolean", v |-> IF b THEN 1 ELSE 0]
\* new Date().toISOString() at clock value n.
Iso(n) == [t |-> "date", v |-> n]

\* The number n + 0.5 and a string that is not numeric, e.g. "abc": values a
\* request body can carry as rank.
Half(n) == [t |-> "half", v |-> n]
Text == [t |-> "text", v |-> 0]

\* ToBoolean: what `!x` and `x || d` test.
Truthy(x) ==
  CASE x.t = "number" -> x.v # 0
    [] x.t = "boolean" -> x.v = 1
    [] x.t = "date" -> TRUE
    [] x.t = "half" -> TRUE
    [] x.t = "text" -> TRUE
    [] OTHER -> FALSE

\* `x < 1`: ToNumber of a non-numeric string is NaN, and NaN < 1 is false.
LessThanOne(x) ==
  CASE x.t = "number" -> x.v < 1
    [] x.t = "half" -> x.v < 1
    [] OTHER -> FALSE

\* parseInt(x): the integer prefix of String(x), NaN when there is none.
ParseInt(x) ==
  CASE x.t = "number" -> Num(x.v)
    [] x.t = "half" -> Num(x.v)
    [] OTHER -> NaN

\* `x || d` where a number is wanted.
OrDefault(x, d) == IF Truthy(x) THEN x.v ELSE d

\* JSON.stringify writes NaN as null; an undefined property is left out,
\* which a later read sees as undefined again.
JsonValue(x) == IF x.t = "NaN" THEN Null ELSE x

JsonGame(g) ==
  [f \in DOMAIN g |-> IF f = "id" THEN g.id ELSE JsonValue(g[f])]

\* The document as JSON.stringify(gameData) followed by JSON.parse gives it.
JsonGames(games) == [i \in 1..Len(games) |-> JsonGame(games[i])]

---------------------------------------------------------------------------
\* Array helpers.


\* Mutant of FindIndex: an id that is not found falls on the last element.
FindIndexOrLast(games, gameId) ==
  IF \E i \in 1..Len(games) : games[i].id = gameId
    THEN CHOOSE i \in 1..Len(games) :
           /\ games[i].id = gameId
           /\ \A j \in 1..(i - 1) : games[j].id # gameId
    ELSE Len(games)

\* games.findIndex(game => game.id === gameId); 0 stands for -1.
FindIndex(games, gameId) ==
  IF \E i \in 1..Len(games) : games[i].id = gameId
    THEN CHOOSE i \in 1..Len(games) :
           /\ games[i].id = gameId
           /\ \A j \in 1..(i - 1) : games[j].id # gameId
    ELSE 0

---------------------------------------------------------------------------
\* GameRankingService: the rank computations.

IsActiveGame(game) == game.isActive # Bool(FALSE)

HasManualRank(game) == game.manualRank # Undefined

\* Mutant of ComparePlay: equal play counts put the oldest play first.
ComparePlayOldestFirst(a, b) ==
  LET playCountA == OrDefault(a.playCount, 0)
      playCountB == OrDefault(b.playCount, 0)
      lastPlayedA == OrDefault(a.lastPlayed, 0)
      lastPlayedB == OrDefault(b.lastPlayed, 0)
  IN  IF playCountA # playCountB
        THEN playCountB - playCountA
        ELSE lastPlayedA - lastPlayedB

\* The comparator of calculateRankings and calculateRankingsWithManualOverrides.
ComparePlay(a, b) ==
  LET playCountA == OrDefault(a.playCount, 0)
      playCountB == OrDefault(b.playCount, 0)
      lastPlayedA == OrDefault(a.lastPlayed, 0)
      lastPlayedB == OrDefault(b.lastPlayed, 0)
  IN  IF playCountA # playCountB
        THEN playCountB - playCountA
        ELSE lastPlayedB - lastPlayedA

\* (a.rank || 999) - (b.rank || 999)
CompareRank(a, b) == OrDefault(a.rank, 999) - OrDefault(b.rank, 999)

\* getAllRankedGames: the value a record is sorted by (a.name of a record
\* that has no such property is undefined).
NameOf(game) == IF "name" \in DOMAIN game THEN game.name ELSE Undefined

SortValue(sortBy, game) ==
  CASE sortBy = "rank" -> OrDefault(game.rank, 999)
    [] sortBy = "playCount" -> OrDefault(game.playCount, 0)
    [] sortBy = "name" -> OrDefault(NameOf(game), 0)
    [] sortBy = "lastPlayed" -> OrDefault(game.lastPlayed, 0)
    [] OTHER -> OrDefault(game.rank, 999)

\* getAllRankedGames: the comparator for the options sortBy and sortOrder.
CompareOptions(sortBy, sortOrder, a, b) ==
  LET aValue == SortValue(sortBy, a)
      bValue == SortValue(sortBy, b)
  IN  IF sortOrder = "desc"
        THEN IF bValue > aValue THEN 1 ELSE IF bValue < aValue THEN -1 ELSE 0
        ELSE IF aValue > bValue THEN 1 ELSE IF aValue < bValue THEN -1 ELSE 0

\* The comparators a sort is called with.
ByPlay == [cmp |-> "play"]
ByRank == [cmp |-> "rank"]
ByOptions(sortBy, sortOrder) ==
  [cmp |-> "options", sortBy |-> sortBy, sortOrder |-> sortOrder]

Compare(order, a, b) ==
  CASE order.cmp = "play" -> ComparePlay(a, b)
    [] order.cmp = "rank" -> CompareRank(a, b)
    [] order.cmp = "options" -> CompareOptions(order.sortBy, order.sortOrder, a, b)

\* Mutant of SortPosition: of two equal elements the later one goes first.
SortPositionUnstable(s, i, order) ==
  Cardinality({j \in 1..Len(s) :
                 \/ Compare(order, s[j], s[i]) < 0
                 \/ (Compare(order, s[j], s[i]) = 0 /\ j > i)}) + 1

\* Array.prototype.sort is stable: the position of s[i] in the sorted array
\* is one more than the number of elements that go before it.
SortPosition(s, i, order) ==
  Cardinality({j \in 1..Len(s) :
                 \/ Compare(order, s[j], s[i]) < 0
                 \/ (Compare(order, s[j], s[i]) = 0 /\ j < i)}) + 1

StableSort(s, order) ==
  [k \in 1..Len(s) |->
     s[CHOOSE i \in 1..Len(s) : SortPosition(s, i, order) = k]]

\* Mutant of calculateRankings: rank = index instead of index + 1.
calculateRankingsZeroBased(games) ==
  LET activeGames == SelectSeq(games, IsActiveGame)
      sortedGames == StableSort(activeGames, ByPlay)
      rankedGames ==
        [i \in 1..Len(sortedGames) |-> [sortedGames[i] EXCEPT !.rank = Num(i - 1)]]
      IsInactive(game) == game.isActive = Bool(FALSE)
      inactiveGames == SelectSeq(games, IsInactive)
      placedGames ==
        [i \in 1..Len(inactiveGames) |->
           IF ~Truthy(inactiveGames[i].rank)
             THEN [inactiveGames[i] EXCEPT !.rank = Num(Len(sortedGames) + 1)]
             ELSE inactiveGames[i]]
  IN  rankedGames \o placedGames

\* Mutant of calculateRankings: the inactive games are not merged back.
calculateRankingsDropsInactive(games) ==
  LET activeGames == SelectSeq(games, IsActiveGame)
      sortedGames == StableSort(activeGames, ByPlay)
  IN  [i \in 1..Len(sortedGames) |-> [sortedGames[i] EXCEPT !.rank = Num(i)]]

\* Mutant of calculateRankings: the inactive games come first in the result.
calculateRankingsInactiveFirst(games) ==
  LET activeGames == SelectSeq(games, IsActiveGame)
      sortedGames == StableSort(activeGames, ByPlay)
      rankedGames ==
        [i \in 1..Len(sortedGames) |-> [sortedGames[i] EXCEPT !.rank = Num(i)]]
      IsInactive(game) == game.isActive = Bool(FALSE)
      inactiveGames == SelectSeq(games, IsInactive)
      placedGames ==
        [i \in 1..Len(inactiveGames) |->
           IF ~Truthy(inactiveGames[i].rank)
             THEN [inactiveGames[i] EXCEPT !.rank = Num(Len(sortedGames) + 1)]
             ELSE inactiveGames[i]]
  IN  placedGames \o rankedGames

\* Mutant of calculateRankings: every inactive game is placed at the end,
\* whether it has a rank or not.
calculateRankingsPlacesAll(games) ==
  LET activeGames == SelectSeq(games, IsActiveGame)
      sortedGames == StableSort(activeGames, ByPlay)
      rankedGames ==
        [i \in 1..Len(sortedGames) |-> [sortedGames[i] EXCEPT !.rank = Num(i)]]
      IsInactive(game) == game.isActive = Bool(FALSE)
      inactiveGames == SelectSeq(games, IsInactive)
      placedGames ==
        [i \in 1..Len(inactiveGames) |->
           [inactiveGames[i] EXCEPT !.rank = Num(Len(sortedGames) + 1)]]
  IN  rankedGames \o placedGames

calculateRankings(games) ==
  LET activeGames == SelectSeq(games, IsActiveGame)
      sortedGames == StableSort(activeGames, ByPlay)
      rankedGames ==
        [i \in 1..Len(sortedGames) |-> [sortedGames[i] EXCEPT !.rank = Num(i)]]
      IsInactive(game) == game.isActive = Bool(FALSE)
      inactiveGames == SelectSeq(games, IsInactive)
      placedGames ==
        [i \in 1..Len(inactiveGames) |->
           IF ~Truthy(inactiveGames[i].rank)
             THEN [inactiveGames[i] EXCEPT !.rank = Num(Len(sortedGames) + 1)]
             ELSE inactiveGames[i]]
  IN  rankedGames \o placedGames

\* Mutant of NextFreeRank: the ranks in use are not skipped.
NextFreeRankNoSkip(usedRanks, autoRank) == autoRank

\* while (usedRanks.has(autoRank)) autoRank++
RECURSIVE NextFreeRank(_, _)
NextFreeRank(usedRanks, autoRank) ==
  IF Num(autoRank) \in usedRanks
    THEN NextFreeRank(usedRanks, autoRank + 1)
    ELSE autoRank

\* sortedAutoGames.forEach(...) from element i on.
RECURSIVE AssignAutoRanks(_, _, _, _)
AssignAutoRanks(sortedAutoGames, i, usedRanks, autoRank) ==
  IF i > Len(sortedAutoGames)
    THEN sortedAutoGames
    ELSE LET r == NextFreeRank(usedRanks, autoRank)
         IN  AssignAutoRanks(
               [sortedAutoGames EXCEPT ![i].rank = Num(r)],
               i + 1, usedRanks \cup {Num(r)}, r + 1)

\* Mutant of calculateRankingsWithManualOverrides: a pinned game whose
\* manualRank an earlier pinned game holds is moved one rank down.
calculateRankingsWithManualOverridesApart(games) ==
  LET manualRankGames == SelectSeq(games, HasManualRank)
      IsAuto(game) == game.manualRank = Undefined
      autoRankGames == SelectSeq(games, IsAuto)
      sortedAutoGames == StableSort(autoRankGames, ByPlay)
      usedRanks == {manualRankGames[i].manualRank : i \in 1..Len(manualRankGames)}
      rankedAuto == AssignAutoRanks(sortedAutoGames, 1, usedRanks, 1)
      Taken(i) ==
        \E j \in 1..(i - 1) :
          manualRankGames[j].manualRank = manualRankGames[i].manualRank
      rankedManual ==
        [i \in 1..Len(manualRankGames) |->
           [manualRankGames[i] EXCEPT !.rank =
              IF Taken(i) THEN Num(manualRankGames[i].manualRank.v + 1)
                          ELSE manualRankGames[i].manualRank]]
      allGames == rankedManual \o rankedAuto
  IN  StableSort(allGames, ByRank)

\* Mutant of calculateRankingsWithManualOverrides: the pin of a game is
\* cleared once its rank is set.
calculateRankingsWithManualOverridesUnpins(games) ==
  LET manualRankGames == SelectSeq(games, HasManualRank)
      IsAuto(game) == game.manualRank = Undefined
      autoRankGames == SelectSeq(games, IsAuto)
      sortedAutoGames == StableSort(autoRankGames, ByPlay)
      usedRanks == {manualRankGames[i].manualRank : i \in 1..Len(manualRankGames)}
      rankedAuto == AssignAutoRanks(sortedAutoGames, 1, usedRanks, 1)
      rankedManual ==
        [i \in 1..Len(manualRankGames) |->
           [manualRankGames[i] EXCEPT !.rank = manualRankGames[i].manualRank,
                                      !.manualRank = Undefined]]
      allGames == rankedManual \o rankedAuto
  IN  StableSort(allGames, ByRank)

calculateRankingsWithManualOverrides(games) ==
  LET manualRankGames == SelectSeq(games, HasManualRank)
      IsAuto(game) == game.manualRank = Undefined
      autoRankGames == SelectSeq(games, IsAuto)
      sortedAutoGames == StableSort(autoRankGames, ByPlay)
      usedRanks == {manualRankGames[i].manualRank : i \in 1..Len(manualRankGames)}
      rankedAuto == AssignAutoRanks(sortedAutoGames, 1, usedRanks, 1)
      rankedManual ==
        [i \in 1..Len(manualRankGames) |->
           [manualRankGames[i] EXCEPT !.rank = manualRankGames[i].manualRank]]
      allGames == rankedManual \o rankedAuto
  IN  StableSort(allGames, ByRank)

\* initializeGameRanking: the ranking fields of a new game.
initializeGameRanking(game) ==
  [id |-> game.id, playCount |-> Num(0), rank |-> Num(1), isActive |-> Bool(TRUE),
   lastPlayed |-> Null, manualRank |-> Undefined,
   statusUpdatedAt |-> Undefined, rankUpdatedAt |-> Undefined]

\* Array.prototype.slice(0, limit).
Slice(s, limit) ==
  CASE limit.t = "number" /\ limit.v >= 0 ->
         SubSeq(s, 1, IF limit.v < Len(s) THEN limit.v ELSE Len(s))
    [] limit.t = "number" /\ limit.v < 0 ->
         SubSeq(s, 1, IF Len(s) + limit.v > 0 THEN Len(s) + limit.v ELSE 0)
    [] OTHER -> <<>>

\* getTopGames(limit = 5, activeOnly = true) after the load.
getTopGames(loaded, limit, activeOnly) ==
  LET filtered == IF activeOnly THEN SelectSeq(loaded, IsActiveGame) ELSE loaded
  IN  Slice(StableSort(filtered, ByRank),
            IF limit = Undefined THEN Num(5) ELSE limit)

getAllRankedGames(loaded, activeOnly, sortBy, sortOrder) ==
  LET filtered == IF activeOnly THEN SelectSeq(loaded, IsActiveGame) ELSE loaded
  IN  StableSort(filtered, ByOptions(sortBy, sortOrder))

\* games.reduce((sum, game) => sum + (game.playCount || 0), 0)
RECURSIVE TotalPlays(_, _)
TotalPlays(loaded, i) ==
  IF i > Len(loaded)
    THEN 0
    ELSE OrDefault(loaded[i].playCount, 0) + TotalPlays(loaded, i + 1)

\* games.reduce((max, game) => ... > ... ? game : max, { playCount: 0 }):
\* the index of the record the reduction holds after element i, 0 for the
\* initial { playCount: 0 }.
RECURSIVE MostPlayedIndex(_, _)
MostPlayedIndex(loaded, i) ==
  IF i = 0
    THEN 0
    ELSE LET max == MostPlayedIndex(loaded, i - 1)
             maxCount == IF max = 0 THEN 0 ELSE OrDefault(loaded[max].playCount, 0)
         IN  IF OrDefault(loaded[i].playCount, 0) > maxCount THEN i ELSE max

\* Math.round(a / b) for a >= 0 and b > 0: halves go up.
RoundDiv(a, b) == (2 * a + b) \div (2 * b)

\* Mutant of getGameStatistics: the average is cut, not rounded.
getGameStatisticsFloor(loaded) ==
  LET activeGames == SelectSeq(loaded, IsActiveGame)
      totalPlays == TotalPlays(loaded, 1)
      mostPlayed == MostPlayedIndex(loaded, Len(loaded))
  IN  [totalGames |-> Len(loaded),
       activeGames |-> Len(activeGames),
       inactiveGames |-> Len(loaded) - Len(activeGames),
       totalPlays |-> totalPlays,
       mostPlayedGame |-> IF mostPlayed # 0 THEN loaded[mostPlayed] ELSE Null,
       averagePlaysPerGame |->
         IF Len(loaded) > 0 THEN totalPlays \div Len(loaded) ELSE 0]

getGameStatistics(loaded) ==
  LET activeGames == SelectSeq(loaded, IsActiveGame)
      totalPlays == TotalPlays(loaded, 1)
      mostPlayed == MostPlayedIndex(loaded, Len(loaded))
  IN  [totalGames |-> Len(loaded),
       activeGames |-> Len(activeGames),
       inactiveGames |-> Len(loaded) - Len(activeGames),
       totalPlays |-> totalPlays,
       mostPlayedGame |-> IF mostPlayed # 0 THEN loaded[mostPlayed] ELSE Null,
       averagePlaysPerGame |->
         IF Len(loaded) > 0 THEN RoundDiv(totalPlays, Len(loaded)) ELSE 0]

---------------------------------------------------------------------------
\* The server: requests in flight against the stored document.

GameIdSeq == <<"A", "B", "C">>
GameIds == {GameIdSeq[i] : i \in 1..Len(GameIdSeq)}
\* "Z" is the id of no game.
RequestIds == GameIds \cup {"Z"}
\* req.body.rank of PUT /set-rank.
RankInputs ==
  {Text, Half(1)} \cup {Num(n) : n \in 0..Len(GameIdSeq)}

Procs == {1, 2}

\* req.query.limit of GET /top-games: absent, or a string of digits.
LimitQueries == {Undefined, Num(0), Num(2)}
\* req.query.sortBy and req.query.sortOrder of GET /all-games.
SortBys == {"rank", "playCount", "name", "lastPlayed", "created"}
SortOrders == {"asc", "desc"}

MutationOps == {"trackGamePlay", "updateGameStatus", "setGameRank"}
QueryOps == {"getTopGames", "getAllRankedGames", "getGameStatistics"}

NoRequest ==
  [op |-> "none", gameId |-> "", isActive |-> Undefined, rank |-> Undefined,
   query |-> Undefined, limit |-> Undefined, activeOnly |-> Undefined,
   sortBy |-> "", sortOrder |-> "", name |-> Undefined,
   client |-> 0, email |-> "", password |-> "", userId |-> ""]

VARIABLES
  store,    \* the games of public/game-data.json
  now,      \* the clock read by new Date()
  pc,       \* where each request handler is
  req,      \* the request each handler serves
  games,    \* gameData.games as each handler loaded it
  doc,      \* updatedGameData.games each handler built
  result,   \* how each handler ended
  stale,    \* another handler saved since this one loaded
  lastPut,  \* the handler whose PutObject the store last accepted
  started,  \* requests accepted so far
  input,    \* a collection given to a rank computation
  output,   \* what the computation returned
  applied,  \* the computation applied
  users,    \* the users of data/users.json
  usersData,\* usersData.users as each handler read and changed it
  session,  \* req.session.user of each client's session
  sent      \* the user each handler sent in its response

vars ==
  <<store, now, pc, req, games, doc, result, stale, lastPut, started,
    input, output, applied, users, usersData, session, sent>>

serverVars == <<store, now, pc, req, games, doc, result, stale, lastPut, started>>
pureVars == <<input, output, applied>>
authVars == <<users, usersData, session, sent>>

\* The clients: each holds the cookie of one session.
Clients == {1, 2}

\* A session that holds no user, or no session at all.
NoUser == Undefined

\* getRootUser: the root user of the environment.
RootEmail == "root@admin.com"
RootPassword == "root123"
RootUser == [id |-> "", email |-> RootEmail, role |-> "root"]

\* The games and ranking routers on their own: every client is signed in as
\* root and the users file is empty.
SignedIn ==
  /\ users = <<>>
  /\ usersData = [p \in Procs |-> <<>>]
  /\ session = [c \in Clients |-> RootUser]
  /\ sent = [p \in Procs |-> Undefined]

\* POST /games: the record pushed carries no ranking field at all.
NewGame(id) ==
  [id |-> id, playCount |-> Undefined, rank |-> Undefined, isActive |-> Undefined,
   lastPlayed |-> Undefined, manualRank |-> Undefined,
   statusUpdatedAt |-> Undefined, rankUpdatedAt |-> Undefined]

\* The document after migrate-games-to-ranking.js: every game initialised,
\* then ranked.
MigratedGames(ids) ==
  JsonGames(calculateRankings(
    [i \in 1..Len(ids) |-> initializeGameRanking([id |-> ids[i]])]))

\* The documents the server starts from: all games migrated, or the last
\* game created through POST /games after the migration.
InitialStores ==
  {MigratedGames(GameIdSeq),
   MigratedGames(SubSeq(GameIdSeq, 1, Len(GameIdSeq) - 1))
     \o <<NewGame(GameIdSeq[Len(GameIdSeq)])>>}

ServerInit ==
  /\ store \in InitialStores
  /\ now = 1
  /\ pc = [p \in Procs |-> "idle"]
  /\ req = [p \in Procs |-> NoRequest]
  /\ games = [p \in Procs |-> <<>>]
  /\ doc = [p \in Procs |-> <<>>]
  /\ result = [p \in Procs |-> "none"]
  /\ stale = [p \in Procs |-> FALSE]
  /\ lastPut = 0
  /\ started = 0
  /\ SignedIn

PureIdle ==
  /\ input = <<>>
  /\ output = <<>>
  /\ applied = "none"

Init == ServerInit /\ PureIdle

\* getGameDataFromS3: the parsed document, or { games: [] } when the
\* GetObject fails (the catch block returns empty data instead of throwing).
getGameDataFromS3(current, s3ok) == IF s3ok THEN current ELSE <<>>

\* Mutant of PutObject: a play count already stored is never lowered.
PutObjectKeepsPlayCounts(current, body) ==
  LET Stored(id) == current[FindIndex(current, id)].playCount
      Kept(g) ==
        IF /\ FindIndex(current, g.id) # 0
           /\ OrDefault(Stored(g.id), 0) > OrDefault(g.playCount, 0)
          THEN [g EXCEPT !.playCount = Stored(g.id)]
          ELSE g
  IN  JsonGames([i \in 1..Len(body) |-> Kept(body[i])])

\* PutObjectCommand: the object is replaced by the body sent.
PutObject(current, body) == JsonGames(body)

\* Handlers are interchangeable: a request goes to the first one that is free.
Free(p) ==
  /\ pc[p] = "idle"
  /\ \A q \in Procs : q < p => pc[q] # "idle"

\* A handler takes a request and awaits the load.
Accept(p, r, s3ok) ==
  /\ Free(p)
  /\ started < MaxOps
  /\ started' = started + 1
  /\ req' = [req EXCEPT ![p] = r]
  /\ games' = [games EXCEPT ![p] = getGameDataFromS3(store, s3ok)]
  /\ doc' = [doc EXCEPT ![p] = <<>>]
  /\ result' = [result EXCEPT ![p] = "none"]
  /\ stale' = [stale EXCEPT ![p] = FALSE]
  /\ pc' = [pc EXCEPT ![p] = "loaded"]
  /\ UNCHANGED <<store, now, lastPut, pureVars, authVars>>

\* POST /track-play -> trackGamePlay(gameId), up to the load.
TrackPlayRequest(p) ==
  \E gameId \in RequestIds, s3ok \in BOOLEAN :
    Accept(p, [NoRequest EXCEPT !.op = "trackGamePlay", !.gameId = gameId], s3ok)

\* PUT /game-status -> updateGameStatus(gameId, isActive), up to the load.
GameStatusRequest(p) ==
  \E gameId \in RequestIds, isActive \in BOOLEAN, s3ok \in BOOLEAN :
    Accept(p, [NoRequest EXCEPT !.op = "updateGameStatus", !.gameId = gameId,
                                !.isActive = Bool(isActive)], s3ok)

\* PUT /set-rank: 400 when `!gameId || !rank || rank < 1`, else
\* setGameRank(gameId, parseInt(rank)), up to the load.
SetRankRequest(p) ==
  \E gameId \in RequestIds, rank \in RankInputs, s3ok \in BOOLEAN :
    IF ~Truthy(rank) \/ LessThanOne(rank)
      THEN /\ Free(p)
           /\ started < MaxOps
           /\ started' = started + 1
           /\ req' = [req EXCEPT ![p] =
                        [NoRequest EXCEPT !.op = "setGameRank", !.gameId = gameId,
                                          !.rank = rank]]
           /\ games' = [games EXCEPT ![p] = <<>>]
           /\ doc' = [doc EXCEPT ![p] = <<>>]
           /\ result' = [result EXCEPT ![p] = "bad_request"]
           /\ stale' = [stale EXCEPT ![p] = FALSE]
           /\ pc' = [pc EXCEPT ![p] = "done"]
           /\ UNCHANGED <<store, now, lastPut, pureVars, authVars>>
      ELSE Accept(p, [NoRequest EXCEPT !.op = "setGameRank", !.gameId = gameId,
                                       !.rank = ParseInt(rank)], s3ok)

\* GET /top-games -> getTopGames(parseInt(limit) || 5, activeOnly), up to
\* the load.
TopGamesRequest(p) ==
  \E limit \in LimitQueries, activeOnly \in BOOLEAN, s3ok \in BOOLEAN :
    Accept(p, [NoRequest EXCEPT !.op = "getTopGames", !.query = limit,
                                !.limit = Num(OrDefault(ParseInt(limit), 5)),
                                !.activeOnly = Bool(activeOnly)], s3ok)

\* GET /all-games -> getAllRankedGames({activeOnly, sortBy, sortOrder}), up
\* to the load.
AllGamesRequest(p) ==
  \E activeOnly \in BOOLEAN, sortBy \in SortBys, sortOrder \in SortOrders,
     s3ok \in BOOLEAN :
    Accept(p, [NoRequest EXCEPT !.op = "getAllRankedGames",
                                !.activeOnly = Bool(activeOnly),
                                !.sortBy = sortBy, !.sortOrder = sortOrder], s3ok)

\* GET /statistics -> getGameStatistics(), up to the load.
StatisticsRequest(p) ==
  \E s3ok \in BOOLEAN :
    Accept(p, [NoRequest EXCEPT !.op = "getGameStatistics"], s3ok)

\* What a query returns from the games it loaded.
Query(r, loaded) ==
  CASE r.op = "getTopGames" ->
         getTopGames(loaded, r.limit, r.activeOnly = Bool(TRUE))
    [] r.op = "getAllRankedGames" ->
         getAllRankedGames(loaded, r.activeOnly = Bool(TRUE), r.sortBy, r.sortOrder)
    [] r.op = "getGameStatistics" -> getGameStatistics(loaded)

\* Mutant of Answer: the query writes the games it loaded back.
AnswerAndSave(p) ==
  /\ pc[p] = "loaded"
  /\ req[p].op \in QueryOps
  /\ doc' = [doc EXCEPT ![p] = Query(req[p], games[p])]
  /\ store' = PutObject(store, games[p])
  /\ result' = [result EXCEPT ![p] = "ok"]
  /\ pc' = [pc EXCEPT ![p] = "done"]
  /\ UNCHANGED <<now, req, games, stale, lastPut, started, pureVars, authVars>>

\* The load of a query has resolved: filter, sort, count, and return.
Answer(p) ==
  /\ pc[p] = "loaded"
  /\ req[p].op \in QueryOps
  /\ doc' = [doc EXCEPT ![p] = Query(req[p], games[p])]
  /\ result' = [result EXCEPT ![p] = "ok"]
  /\ pc' = [pc EXCEPT ![p] = "done"]
  /\ UNCHANGED <<store, now, req, games, stale, lastPut, started, pureVars, authVars>>

\* Mutant of trackGamePlay: `game.playCount + 1` without `|| 0`.
trackGamePlayNoDefault(loaded, gameIndex, time) ==
  calculateRankings(
    [loaded EXCEPT ![gameIndex].playCount =
                     IF @.t = "number" THEN Num(@.v + 1) ELSE NaN,
                   ![gameIndex].lastPlayed = Iso(time)])

\* The change each operation makes to the record it found, then the
\* recomputation it calls.
trackGamePlay(loaded, gameIndex, time) ==
  calculateRankings(
    [loaded EXCEPT ![gameIndex].playCount = Num(OrDefault(@, 0) + 1),
                   ![gameIndex].lastPlayed = Iso(time)])

\* Mutant of updateGameStatus: the ranks are not recomputed.
updateGameStatusNoRecompute(loaded, gameIndex, isActive, time) ==
  [loaded EXCEPT ![gameIndex].isActive = isActive,
                 ![gameIndex].statusUpdatedAt = Iso(time)]

updateGameStatus(loaded, gameIndex, isActive, time) ==
  calculateRankings(
    [loaded EXCEPT ![gameIndex].isActive = isActive,
                   ![gameIndex].statusUpdatedAt = Iso(time)])

\* Mutant of setGameRank: the ranks are recomputed without the overrides.
setGameRankPlain(loaded, gameIndex, newRank, time) ==
  calculateRankings(
    [loaded EXCEPT ![gameIndex].manualRank = newRank,
                   ![gameIndex].rank = newRank,
                   ![gameIndex].rankUpdatedAt = Iso(time)])

setGameRank(loaded, gameIndex, newRank, time) ==
  calculateRankingsWithManualOverrides(
    [loaded EXCEPT ![gameIndex].manualRank = newRank,
                   ![gameIndex].rank = newRank,
                   ![gameIndex].rankUpdatedAt = Iso(time)])

Mutate(r, loaded, gameIndex, time) ==
  CASE r.op = "trackGamePlay" -> trackGamePlay(loaded, gameIndex, time)
    [] r.op = "updateGameStatus" -> updateGameStatus(loaded, gameIndex, r.isActive, time)
    [] r.op = "setGameRank" -> setGameRank(loaded, gameIndex, r.rank, time)

\* The load has resolved: find the game, change it, rank, send the save;
\* or throw "Game with ID ... not found".
\* new Date() reads the clock: the time of the previous reading, or a later one.
Compute(p) ==
  /\ pc[p] = "loaded"
  /\ req[p].op \in MutationOps
  /\ LET gameIndex == FindIndex(games[p], req[p].gameId)
     IN  IF gameIndex = 0
           THEN /\ result' = [result EXCEPT ![p] = "not_found"]
                /\ pc' = [pc EXCEPT ![p] = "done"]
                /\ UNCHANGED <<doc, now>>
           ELSE /\ \E time \in {now, now + 1} :
                     /\ now' = time
                     /\ doc' = [doc EXCEPT ![p] =
                                  Mutate(req[p], games[p], gameIndex, time)]
                /\ pc' = [pc EXCEPT ![p] = "saving"]
                /\ result' = result
  /\ UNCHANGED <<store, req, games, stale, lastPut, started, pureVars, authVars>>

\* updateGameDataInS3 succeeds: the handler answers success.
SaveOk(p) ==
  /\ pc[p] = "saving"
  /\ store' = PutObject(store, doc[p])
  /\ lastPut' = p
  /\ stale' = [q \in Procs |->
                 IF q # p /\ pc[q] \in {"loaded", "saving"} THEN TRUE ELSE stale[q]]
  /\ result' = [result EXCEPT ![p] = "ok"]
  /\ pc' = [pc EXCEPT ![p] = "done"]
  /\ UNCHANGED <<now, req, games, doc, started, pureVars, authVars>>

\* Mutant of SaveFails: the object is written although the error is reported.
SaveFailsAfterWrite(p) ==
  /\ pc[p] = "saving"
  /\ store' = PutObject(store, doc[p])
  /\ result' = [result EXCEPT ![p] = "storage_error"]
  /\ pc' = [pc EXCEPT ![p] = "done"]
  /\ UNCHANGED <<now, req, games, doc, stale, lastPut, started, pureVars, authVars>>

\* updateGameDataInS3 throws 'Failed to update game data in S3'.
SaveFails(p) ==
  /\ pc[p] = "saving"
  /\ result' = [result EXCEPT ![p] = "storage_error"]
  /\ pc' = [pc EXCEPT ![p] = "done"]
  /\ UNCHANGED <<store, now, req, games, doc, stale, lastPut, started, pureVars, authVars>>

\* The response is sent and the handler's locals are gone.
Respond(p) ==
  /\ pc[p] = "done"
  /\ pc' = [pc EXCEPT ![p] = "idle"]
  /\ req' = [req EXCEPT ![p] = NoRequest]
  /\ games' = [games EXCEPT ![p] = <<>>]
  /\ doc' = [doc EXCEPT ![p] = <<>>]
  /\ result' = [result EXCEPT ![p] = "none"]
  /\ stale' = [stale EXCEPT ![p] = FALSE]
  /\ lastPut' = IF lastPut = p THEN 0 ELSE lastPut
  /\ UNCHANGED <<store, now, started, pureVars, authVars>>

Next ==
  \/ \E p \in Procs : TrackPlayRequest(p)
  \/ \E p \in Procs : GameStatusRequest(p)
  \/ \E p \in Procs : SetRankRequest(p)
  \/ \E p \in Procs : TopGamesRequest(p)
  \/ \E p \in Procs : AllGamesRequest(p)
  \/ \E p \in Procs : StatisticsRequest(p)
  \/ \E p \in Procs : Answer(p)
  \/ \E p \in Procs : Compute(p)
  \/ \E p \in Procs : SaveOk(p)
  \/ \E p \in Procs : SaveFails(p)
  \/ \E p \in Procs : Respond(p)

Spec == Init /\ [][Next]_vars

---------------------------------------------------------------------------
\* The rank computations on their own, applied to any collection of the
\* games.

PlayCountValues == {Undefined} \cup {Num(n) : n \in 0..MaxPlayCount}
LastPlayedValues == {Null} \cup {Iso(n) : n \in 1..MaxTime}
IsActiveValues == {Undefined, Bool(TRUE), Bool(FALSE)}
ManualRankValues == {Undefined} \cup {Num(n) : n \in 1..(Len(GameIdSeq) - 1)}

\* Games that were never pinned, as calculateRankings meets them.
UnpinnedGames(id) ==
  [id : {id}, playCount : PlayCountValues, lastPlayed : LastPlayedValues,
   isActive : IsActiveValues, rank : {Undefined, Num(1)},
   manualRank : {Undefined},
   statusUpdatedAt : {Undefined}, rankUpdatedAt : {Undefined}]

\* Games as calculateRankingsWithManualOverrides meets them.
PinnableGames(id) ==
  [id : {id}, playCount : PlayCountValues, lastPlayed : LastPlayedValues,
   isActive : {Bool(TRUE), Bool(FALSE)}, rank : {Undefined},
   manualRank : ManualRankValues,
   statusUpdatedAt : {Undefined}, rankUpdatedAt : {Undefined}]

ServerIdle ==
  /\ store = MigratedGames(GameIdSeq)
  /\ now = 1
  /\ pc = [p \in Procs |-> "idle"]
  /\ req = [p \in Procs |-> NoRequest]
  /\ games = [p \in Procs |-> <<>>]
  /\ doc = [p \in Procs |-> <<>>]
  /\ result = [p \in Procs |-> "none"]
  /\ stale = [p \in Procs |-> FALSE]
  /\ lastPut = 0
  /\ started = 0
  /\ SignedIn

RankInit ==
  /\ ServerIdle
  /\ input \in [1..Len(GameIdSeq) -> UNION {UnpinnedGames(id) : id \in GameIds}]
  /\ \A i \in 1..Len(GameIdSeq) : input[i].id = GameIdSeq[i]
  /\ output = <<>>
  /\ applied = "none"

Recompute ==
  /\ applied = "none"
  /\ output' = calculateRankings(input)
  /\ applied' = "calculateRankings"
  /\ UNCHANGED <<input, serverVars, authVars>>

SpecRank == RankInit /\ [][Recompute]_vars

OverridesInit ==
  /\ ServerIdle
  /\ input \in [1..Len(GameIdSeq) -> UNION {PinnableGames(id) : id \in GameIds}]
  /\ \A i \in 1..Len(GameIdSeq) : input[i].id = GameIdSeq[i]
  /\ output = <<>>
  /\ applied = "none"

RecomputeWithOverrides ==
  /\ applied = "none"
  /\ output' = calculateRankingsWithManualOverrides(input)
  /\ applied' = "calculateRankingsWithManualOverrides"
  /\ UNCHANGED <<input, serverVars, authVars>>

SpecOverrides == OverridesInit /\ [][RecomputeWithOverrides]_vars

---------------------------------------------------------------------------
\* A rank computation applied to the collection it has just returned.
RecomputeAgain ==
  /\ applied = "calculateRankings"
  /\ input' = output
  /\ output' = calculateRankings(output)
  /\ applied' = "calculateRankings again"
  /\ UNCHANGED <<serverVars, authVars>>

RecomputeWithOverridesAgain ==
  /\ applied = "calculateRankingsWithManualOverrides"
  /\ input' = output
  /\ output' = calculateRankingsWithManualOverrides(output)
  /\ applied' = "calculateRankingsWithManualOverrides again"
  /\ UNCHANGED <<serverVars, authVars>>

TwiceNext ==
  \/ Recompute
  \/ RecomputeAgain
  \/ RecomputeWithOverrides
  \/ RecomputeWithOverridesAgain

SpecTwice == OverridesInit /\ [][TwiceNext]_vars

---------------------------------------------------------------------------

\* The queries on their own, against any stored collection.

Name(n) == [t |-> "text", v |-> n]

\* A record with the name it was created with.
Named(game, name) ==
  [f \in DOMAIN game \cup {"name"} |-> IF f = "name" THEN name ELSE game[f]]

\* playCount and lastPlayed as trackGamePlay leaves them.
PlayedValues ==
  {[playCount |-> Num(0), lastPlayed |-> Null]}
    \cup {[playCount |-> Num(n), lastPlayed |-> Iso(time)] :
            n \in 1..MaxPlayCount, time \in 1..MaxTime}

\* A stored game: ranked by calculateRankings, active or deactivated before
\* its first play; created by POST /games and not ranked yet, with or without
\* a name; or pinned by setGameRank to a rank above 999.
QueryGames(id) ==
  {Named([initializeGameRanking([id |-> id]) EXCEPT
            !.playCount = played.playCount, !.lastPlayed = played.lastPlayed,
            !.rank = Num(rank)], Name(1)) :
     played \in PlayedValues, rank \in 1..2}
  \cup {Named([initializeGameRanking([id |-> id]) EXCEPT
                 !.isActive = Bool(FALSE), !.rank = Num(rank)], Name(1)) :
          rank \in 1..2}
  \cup {NewGame(id), Named(NewGame(id), Name(2))}
  \cup {Named([initializeGameRanking([id |-> id]) EXCEPT
                 !.rank = Num(999 + 1), !.manualRank = Num(999 + 1)], Name(1))}

QueryStores ==
  {games_ \in [1..Len(GameIdSeq) -> UNION {QueryGames(id) : id \in GameIds}] :
     \A i \in 1..Len(GameIdSeq) : games_[i].id = GameIdSeq[i]}

QueryInit ==
  /\ store \in QueryStores
  /\ now = 1
  /\ pc = [p \in Procs |-> "idle"]
  /\ req = [p \in Procs |-> NoRequest]
  /\ games = [p \in Procs |-> <<>>]
  /\ doc = [p \in Procs |-> <<>>]
  /\ result = [p \in Procs |-> "none"]
  /\ stale = [p \in Procs |-> FALSE]
  /\ lastPut = 0
  /\ started = 0
  /\ SignedIn
  /\ PureIdle

\* One handler serves the queries one after the other.
QueryNext ==
  \/ TopGamesRequest(1)
  \/ AllGamesRequest(1)
  \/ StatisticsRequest(1)
  \/ Answer(1)
  \/ Respond(1)

SpecQuery == QueryInit /\ [][QueryNext]_vars

\* getGameStatistics applied to any collection of up to three games.
StatisticsGames(id) ==
  [id : {id}, playCount : PlayCountValues, lastPlayed : {Null},
   isActive : IsActiveValues, rank : {Undefined}, manualRank : {Undefined},
   statusUpdatedAt : {Undefined}, rankUpdatedAt : {Undefined}]

StatisticsInit ==
  /\ ServerIdle
  /\ \E n \in 0..Len(GameIdSeq) :
       /\ input \in [1..n -> UNION {StatisticsGames(id) : id \in GameIds}]
       /\ \A i \in 1..n : input[i].id = GameIdSeq[i]
  /\ output = <<>>
  /\ applied = "none"

Statistics ==
  /\ applied = "none"
  /\ output' = getGameStatistics(input)
  /\ applied' = "getGameStatistics"
  /\ UNCHANGED <<input, serverVars, authVars>>

SpecStatistics == StatisticsInit /\ [][Statistics]_vars

---------------------------------------------------------------------------

\* Both rank computations applied to any mix of active, inactive, pinned and
\* unpinned games, ranked before or not.
MixedGames(id) ==
  [id : {id}, playCount : {Undefined, Num(MaxPlayCount)},
   lastPlayed : {Null, Iso(MaxTime)},
   isActive : IsActiveValues, rank : {Undefined, Num(1)},
   manualRank : {Undefined, Num(1)},
   statusUpdatedAt : {Undefined}, rankUpdatedAt : {Undefined}]

MixedInit ==
  /\ ServerIdle
  /\ input \in [1..Len(GameIdSeq) -> UNION {MixedGames(id) : id \in GameIds}]
  /\ \A i \in 1..Len(GameIdSeq) : input[i].id = GameIdSeq[i]
  /\ output = <<>>
  /\ applied = "none"

MixedNext ==
  \/ Recompute
  \/ RecomputeWithOverrides

SpecMixed == MixedInit /\ [][MixedNext]_vars

---------------------------------------------------------------------------

\* The games router: create, update, delete, and the recalculation of the
\* ranking router, served one after the other.

\* Date.now() in `game_${Date.now()}`.
GeneratedIds == <<"game_1", "game_2", "game_3", "game_4", "game_5">>

\* req.body.id of POST /games: absent, the id of a stored game, or a new id.
CreateIds == {"", "A", "Z"}
\* req.body.name: absent, or a name.
NameInputs == {Undefined, Name(2)}

GameOps == {"createGame", "updateGame", "deleteGame", "recalculate"}

\* POST /games, up to the load.
CreateGameRequest(p) ==
  \E id \in CreateIds, name \in NameInputs, s3ok \in BOOLEAN :
    Accept(p, [NoRequest EXCEPT !.op = "createGame", !.gameId = id,
                                !.name = name], s3ok)

\* PUT /games/:gameId, up to the load.
UpdateGameRequest(p) ==
  \E gameId \in RequestIds, name \in NameInputs, s3ok \in BOOLEAN :
    Accept(p, [NoRequest EXCEPT !.op = "updateGame", !.gameId = gameId,
                                !.name = name], s3ok)

\* DELETE /games/:gameId, up to the load.
DeleteGameRequest(p) ==
  \E gameId \in RequestIds, s3ok \in BOOLEAN :
    Accept(p, [NoRequest EXCEPT !.op = "deleteGame", !.gameId = gameId], s3ok)

\* POST /recalculate, up to the load.
RecalculateRequest(p) ==
  \E s3ok \in BOOLEAN :
    Accept(p, [NoRequest EXCEPT !.op = "recalculate"], s3ok)

\* newGame of POST /games: id and metadata from the body, no ranking field.
newGame(r, time) ==
  Named(NewGame(IF r.gameId = "" THEN GeneratedIds[time] ELSE r.gameId), r.name)

\* updatedGame of PUT /games/:gameId: id and metadata only, each metadata
\* field from the body or else from the record found.
updatedGame(existing, r) ==
  Named(NewGame(r.gameId), IF Truthy(r.name) THEN r.name ELSE existing.name)

\* Array.prototype.splice(gameIndex, 1).
Splice(s, gameIndex) ==
  SubSeq(s, 1, gameIndex - 1) \o SubSeq(s, gameIndex + 1, Len(s))

\* The load has resolved: build the document to save and send the save; or
\* answer 404 'Game not found'; or throw on `req.body.name.toLowerCase()`.
GameCompute(p) ==
  /\ pc[p] = "loaded"
  /\ req[p].op \in GameOps
  /\ LET r == req[p]
         gameIndex == FindIndex(games[p], r.gameId)
     IN  CASE r.op = "createGame" /\ ~Truthy(r.name) ->
                /\ result' = [result EXCEPT ![p] = "error"]
                /\ pc' = [pc EXCEPT ![p] = "done"]
                /\ UNCHANGED <<doc, now>>
           [] r.op = "createGame" /\ Truthy(r.name) ->
                /\ \E time \in {now, now + 1} :
                     /\ now' = time
                     /\ doc' = [doc EXCEPT ![p] =
                                  Append(games[p], newGame(r, time))]
                /\ pc' = [pc EXCEPT ![p] = "saving"]
                /\ result' = result
           [] r.op \in {"updateGame", "deleteGame"} /\ gameIndex = 0 ->
                /\ result' = [result EXCEPT ![p] = "not_found"]
                /\ pc' = [pc EXCEPT ![p] = "done"]
                /\ UNCHANGED <<doc, now>>
           [] r.op = "updateGame" /\ gameIndex # 0 ->
                /\ doc' = [doc EXCEPT ![p] =
                             [games[p] EXCEPT ![gameIndex] = updatedGame(@, r)]]
                /\ pc' = [pc EXCEPT ![p] = "saving"]
                /\ UNCHANGED <<result, now>>
           [] r.op = "deleteGame" /\ gameIndex # 0 ->
                /\ doc' = [doc EXCEPT ![p] = Splice(games[p], gameIndex)]
                /\ pc' = [pc EXCEPT ![p] = "saving"]
                /\ UNCHANGED <<result, now>>
           [] r.op = "recalculate" ->
                /\ doc' = [doc EXCEPT ![p] = calculateRankings(games[p])]
                /\ pc' = [pc EXCEPT ![p] = "saving"]
                /\ UNCHANGED <<result, now>>
  /\ UNCHANGED <<store, req, games, stale, lastPut, started, pureVars, authVars>>

\* The stored document: the migrated games with their names, or the last
\* game created through POST /games after the migration.
NamedStores ==
  {[i \in 1..Len(s) |-> Named(s[i], Name(1))] : s \in InitialStores}

GamesInit ==
  /\ store \in NamedStores
  /\ now = 1
  /\ pc = [p \in Procs |-> "idle"]
  /\ req = [p \in Procs |-> NoRequest]
  /\ games = [p \in Procs |-> <<>>]
  /\ doc = [p \in Procs |-> <<>>]
  /\ result = [p \in Procs |-> "none"]
  /\ stale = [p \in Procs |-> FALSE]
  /\ lastPut = 0
  /\ started = 0
  /\ SignedIn
  /\ PureIdle

\* One handler serves the requests one after the other.
GamesNext ==
  \/ CreateGameRequest(1)
  \/ UpdateGameRequest(1)
  \/ DeleteGameRequest(1)
  \/ RecalculateRequest(1)
  \/ TrackPlayRequest(1)
  \/ GameStatusRequest(1)
  \/ SetRankRequest(1)
  \/ GameCompute(1)
  \/ Compute(1)
  \/ SaveOk(1)
  \/ SaveFails(1)
  \/ Respond(1)

SpecGames == GamesInit /\ [][GamesNext]_vars

---------------------------------------------------------------------------

\* The users file and the auth router: login, logout, me.

\* bcrypt.hash and bcrypt.compare.
Hash(password) == <<"bcrypt", password>>
BcryptCompare(password, hashed) == hashed = Hash(password)

\* The users the file holds at the start, added through POST /users.
UserIdSeq == <<"u1", "u2">>
UserEmails == <<"a@x", "b@x">>
StoredUser(i) ==
  [id |-> UserIdSeq[i], email |-> UserEmails[i], password |-> Hash("pw"),
   role |-> "user"]
InitialUsers == {<<StoredUser(1)>>, <<StoredUser(1), StoredUser(2)>>}

\* usersData.users.find(u => u.email === email): the index, 0 for none.
FindUserByEmail(stored, email) ==
  IF \E i \in 1..Len(stored) : stored[i].email = email
    THEN CHOOSE i \in 1..Len(stored) :
           /\ stored[i].email = email
           /\ \A j \in 1..(i - 1) : stored[j].email # email
    ELSE 0

\* usersData.users.findIndex(u => u.id === userId): the index, 0 for -1.
FindUserById(stored, userId) ==
  IF \E i \in 1..Len(stored) : stored[i].id = userId
    THEN CHOOSE i \in 1..Len(stored) :
           /\ stored[i].id = userId
           /\ \A j \in 1..(i - 1) : stored[j].id # userId
    ELSE 0

\* authenticateUser: the root user, a stored user whose password matches, or
\* null.
authenticateUser(stored, email, password) ==
  LET i == FindUserByEmail(stored, email)
  IN  IF email = RootEmail /\ password = RootPassword
        THEN RootUser
        ELSE IF i = 0
               THEN Null
               ELSE IF ~BcryptCompare(password, stored[i].password)
                      THEN Null
                      ELSE [id |-> stored[i].id, email |-> stored[i].email,
                            role |-> stored[i].role]

\* req.body.email and req.body.password of POST /login; "" is a missing one.
LoginEmails == {"", RootEmail, "a@x", "c@x"}
LoginPasswords == {"", RootPassword, "pw"}

\* A handler serves a request of the auth router in one step.
Served(p, r, status, user) ==
  /\ Free(p)
  /\ req' = [req EXCEPT ![p] = r]
  /\ result' = [result EXCEPT ![p] = status]
  /\ sent' = [sent EXCEPT ![p] = user]
  /\ pc' = [pc EXCEPT ![p] = "done"]
  /\ UNCHANGED <<store, now, games, doc, stale, lastPut, started, pureVars,
                 users, usersData>>

\* POST /login: 400 without email or password, 401 when authenticateUser
\* returns null, else the user is stored in the session.
Login(p, c) ==
  \E email \in LoginEmails, password \in LoginPasswords :
    LET r == [NoRequest EXCEPT !.op = "login", !.client = c, !.email = email,
                               !.password = password]
        user == authenticateUser(users, email, password)
    IN  IF email = "" \/ password = ""
          THEN Served(p, r, "bad_request", Undefined) /\ session' = session
          ELSE IF user = Null
                 THEN Served(p, r, "unauthenticated", Undefined) /\ session' = session
                 ELSE /\ Served(p, r, "ok", user)
                      /\ session' = [session EXCEPT ![c] = user]

\* Mutant of Logout: the session is kept.
LogoutKeepsSession(p, c) ==
  /\ Served(p, [NoRequest EXCEPT !.op = "logout", !.client = c], "ok", Undefined)
  /\ session' = session

\* POST /logout: req.session.destroy().
Logout(p, c) ==
  /\ Served(p, [NoRequest EXCEPT !.op = "logout", !.client = c], "ok", Undefined)
  /\ session' = [session EXCEPT ![c] = NoUser]

\* GET /me: 401 without a user in the session, else the session's user.
Me(p, c) ==
  LET r == [NoRequest EXCEPT !.op = "me", !.client = c]
  IN  /\ IF session[c] = NoUser
           THEN Served(p, r, "unauthenticated", Undefined)
           ELSE Served(p, r, "ok", session[c])
      /\ session' = session

\* The response is sent by a handler of the auth router.
SessionRespond(p) ==
  /\ pc[p] = "done"
  /\ pc' = [pc EXCEPT ![p] = "idle"]
  /\ req' = [req EXCEPT ![p] = NoRequest]
  /\ result' = [result EXCEPT ![p] = "none"]
  /\ sent' = [sent EXCEPT ![p] = Undefined]
  /\ UNCHANGED <<store, now, games, doc, stale, lastPut, started, pureVars,
                 users, usersData, session>>

\* No client is signed in.
SessionInit ==
  /\ store = MigratedGames(GameIdSeq)
  /\ now = 1
  /\ pc = [p \in Procs |-> "idle"]
  /\ req = [p \in Procs |-> NoRequest]
  /\ games = [p \in Procs |-> <<>>]
  /\ doc = [p \in Procs |-> <<>>]
  /\ result = [p \in Procs |-> "none"]
  /\ stale = [p \in Procs |-> FALSE]
  /\ lastPut = 0
  /\ started = 0
  /\ PureIdle
  /\ users \in InitialUsers
  /\ usersData = [p \in Procs |-> <<>>]
  /\ session = [c \in Clients |-> NoUser]
  /\ sent = [p \in Procs |-> Undefined]

SessionNext ==
  \/ \E c \in Clients : Login(1, c)
  \/ \E c \in Clients : Logout(1, c)
  \/ \E c \in Clients : Me(1, c)
  \/ SessionRespond(1)

SpecSession == SessionInit /\ [][SessionNext]_vars

---------------------------------------------------------------------------

\* The users router, behind requireRoot: add, update, delete.

UserOps == {"addUser", "updateUser", "deleteUser"}

\* Date.now() in `user_${Date.now()}`.
GeneratedUserIds == <<"user_1", "user_2", "user_3", "user_4", "user_5">>

\* req.params.userId: "nobody" is the id of no user.
UserRequestIds == {UserIdSeq[i] : i \in 1..Len(UserIdSeq)} \cup {"nobody"}
\* req.body.email; "" is a body without email.
EmailInputs == {"", "a@x", "b@x"}

\* readUsers: the parsed file, or { users: [] } when the read or the parse
\* fails.
readUsers(current, readok) == IF readok THEN current ELSE <<>>

\* A handler takes a request and awaits readUsers.
UserAccept(p, r, readok) ==
  /\ Free(p)
  /\ started < MaxOps
  /\ started' = started + 1
  /\ req' = [req EXCEPT ![p] = r]
  /\ usersData' = [usersData EXCEPT ![p] = readUsers(users, readok)]
  /\ result' = [result EXCEPT ![p] = "none"]
  /\ pc' = [pc EXCEPT ![p] = "loaded"]
  /\ UNCHANGED <<store, now, games, doc, stale, lastPut, pureVars,
                 users, session, sent>>

\* POST /users: 400 without username, email or password, else addUser, up
\* to the read.
AddUserRequest(p) ==
  \E email \in EmailInputs, readok \in BOOLEAN :
    LET r == [NoRequest EXCEPT !.op = "addUser", !.email = email,
                               !.password = "pw"]
    IN  IF email = ""
          THEN /\ Free(p)
               /\ started < MaxOps
               /\ started' = started + 1
               /\ req' = [req EXCEPT ![p] = r]
               /\ result' = [result EXCEPT ![p] = "bad_request"]
               /\ pc' = [pc EXCEPT ![p] = "done"]
               /\ UNCHANGED <<store, now, games, doc, stale, lastPut, pureVars,
                              authVars>>
          ELSE UserAccept(p, r, readok)

\* PUT /users/:userId -> updateUser(userId, req.body), up to the read.
UpdateUserRequest(p) ==
  \E userId \in UserRequestIds, email \in EmailInputs, readok \in BOOLEAN :
    UserAccept(p, [NoRequest EXCEPT !.op = "updateUser", !.userId = userId,
                                    !.email = email], readok)

\* DELETE /users/:userId -> deleteUser(userId), up to the read.
DeleteUserRequest(p) ==
  \E userId \in UserRequestIds, readok \in BOOLEAN :
    UserAccept(p, [NoRequest EXCEPT !.op = "deleteUser", !.userId = userId],
               readok)

\* newUser of addUser.
newUser(r, time) ==
  [id |-> GeneratedUserIds[time], email |-> r.email,
   password |-> Hash(r.password), role |-> "user"]

\* { ...usersData.users[userIndex], ...updates }
Updated(user, r) ==
  [user EXCEPT !.email = IF r.email = "" THEN @ ELSE r.email]

\* The read has resolved: addUser, updateUser or deleteUser changes
\* usersData and calls writeUsers; or throws 'User with this email already
\* exists' or 'User not found'.
UserCompute(p) ==
  /\ pc[p] = "loaded"
  /\ req[p].op \in UserOps
  /\ LET r == req[p]
         read == usersData[p]
         userIndex == FindUserById(read, r.userId)
     IN  CASE r.op = "addUser" /\ FindUserByEmail(read, r.email) # 0 ->
                /\ result' = [result EXCEPT ![p] = "exists"]
                /\ pc' = [pc EXCEPT ![p] = "done"]
                /\ usersData' = [usersData EXCEPT ![p] = <<>>]
                /\ now' = now
           [] r.op = "addUser" /\ FindUserByEmail(read, r.email) = 0 ->
                /\ \E time \in {now, now + 1} :
                     /\ now' = time
                     /\ usersData' = [usersData EXCEPT ![p] =
                                        Append(read, newUser(r, time))]
                /\ pc' = [pc EXCEPT ![p] = "writing"]
                /\ result' = result
           [] r.op \in {"updateUser", "deleteUser"} /\ userIndex = 0 ->
                /\ result' = [result EXCEPT ![p] = "not_found"]
                /\ pc' = [pc EXCEPT ![p] = "done"]
                /\ usersData' = [usersData EXCEPT ![p] = <<>>]
                /\ now' = now
           [] r.op = "updateUser" /\ userIndex # 0 ->
                /\ usersData' = [usersData EXCEPT ![p] =
                                   [read EXCEPT ![userIndex] = Updated(@, r)]]
                /\ pc' = [pc EXCEPT ![p] = "writing"]
                /\ UNCHANGED <<result, now>>
           [] r.op = "deleteUser" /\ userIndex # 0 ->
                /\ usersData' = [usersData EXCEPT ![p] = Splice(read, userIndex)]
                /\ pc' = [pc EXCEPT ![p] = "writing"]
                /\ UNCHANGED <<result, now>>
  /\ UNCHANGED <<store, req, games, doc, stale, lastPut, started, pureVars,
                 users, session, sent>>

\* writeUsers: the file is replaced by usersData; the handler answers.
UserWrite(p) ==
  /\ pc[p] = "writing"
  /\ users' = usersData[p]
  /\ usersData' = [usersData EXCEPT ![p] = <<>>]
  /\ result' = [result EXCEPT ![p] = "ok"]
  /\ pc' = [pc EXCEPT ![p] = "done"]
  /\ UNCHANGED <<store, now, req, games, doc, stale, lastPut, started, pureVars,
                 session, sent>>

\* Root is signed in and the file holds one or two users.
UsersInit ==
  /\ store = MigratedGames(GameIdSeq)
  /\ now = 1
  /\ pc = [p \in Procs |-> "idle"]
  /\ req = [p \in Procs |-> NoRequest]
  /\ games = [p \in Procs |-> <<>>]
  /\ doc = [p \in Procs |-> <<>>]
  /\ result = [p \in Procs |-> "none"]
  /\ stale = [p \in Procs |-> FALSE]
  /\ lastPut = 0
  /\ started = 0
  /\ PureIdle
  /\ users \in InitialUsers
  /\ usersData = [p \in Procs |-> <<>>]
  /\ session = [c \in Clients |-> RootUser]
  /\ sent = [p \in Procs |-> Undefined]

UsersNext ==
  \/ \E p \in Procs : AddUserRequest(p)
  \/ \E p \in Procs : UpdateUserRequest(p)
  \/ \E p \in Procs : DeleteUserRequest(p)
  \/ \E p \in Procs : UserCompute(p)
  \/ \E p \in Procs : UserWrite(p)
  \/ \E p \in Procs : Respond(p)

SpecUsers == UsersInit /\ [][UsersNext]_vars

---------------------------------------------------------------------------

\* The session-protected endpoints behind their middleware.

\* Mutant of authenticateSession: every request is let through.
authenticateSessionOpen(user) == "next"

\* authenticateSession: 401 without a user in the session.
authenticateSession(user) ==
  IF user = NoUser THEN "unauthenticated" ELSE "next"

\* requireRoot: 401 without a user in the session, 403 when the user's role
\* is not 'root'.
requireRoot(user) ==
  IF user = NoUser
    THEN "unauthenticated"
    ELSE IF user.role # "root" THEN "forbidden" ELSE "next"

ProtectedOps == {"updateGameStatus", "setGameRank"} \cup GameOps \cup UserOps

\* The middleware each route is declared with.
Middleware(op, user) ==
  IF op \in UserOps THEN requireRoot(user) ELSE authenticateSession(user)

\* The handler behind the middleware.
Endpoint(p, op) ==
  CASE op = "updateGameStatus" -> GameStatusRequest(p)
    [] op = "setGameRank" -> SetRankRequest(p)
    [] op = "recalculate" -> RecalculateRequest(p)
    [] op = "createGame" -> CreateGameRequest(p)
    [] op = "updateGame" -> UpdateGameRequest(p)
    [] op = "deleteGame" -> DeleteGameRequest(p)
    [] op = "addUser" -> AddUserRequest(p)
    [] op = "updateUser" -> UpdateUserRequest(p)
    [] op = "deleteUser" -> DeleteUserRequest(p)

\* The middleware answers and next() is not called.
Rejected(p, c, op, verdict) ==
  /\ Free(p)
  /\ started < MaxOps
  /\ started' = started + 1
  /\ req' = [req EXCEPT ![p] = [NoRequest EXCEPT !.op = op, !.client = c]]
  /\ result' = [result EXCEPT ![p] = verdict]
  /\ pc' = [pc EXCEPT ![p] = "done"]
  /\ UNCHANGED <<store, now, games, doc, stale, lastPut, pureVars, authVars>>

\* Client c sends a request to a protected endpoint.
Request(p, c, op) ==
  LET verdict == Middleware(op, session[c])
  IN  IF verdict = "next" THEN Endpoint(p, op) ELSE Rejected(p, c, op, verdict)

\* The sessions after any logins and logouts: a client is signed out,
\* signed in as root, or signed in as the stored user.
SessionUsers ==
  {NoUser} \cup
  ({authenticateUser(<<StoredUser(1)>>, email, password) :
      email \in LoginEmails, password \in LoginPasswords} \ {Null})

AuthInit ==
  /\ store = [i \in 1..Len(GameIdSeq) |->
                Named(MigratedGames(GameIdSeq)[i], Name(1))]
  /\ now = 1
  /\ pc = [p \in Procs |-> "idle"]
  /\ req = [p \in Procs |-> NoRequest]
  /\ games = [p \in Procs |-> <<>>]
  /\ doc = [p \in Procs |-> <<>>]
  /\ result = [p \in Procs |-> "none"]
  /\ stale = [p \in Procs |-> FALSE]
  /\ lastPut = 0
  /\ started = 0
  /\ PureIdle
  /\ users = <<StoredUser(1)>>
  /\ usersData = [p \in Procs |-> <<>>]
  /\ session \in [Clients -> SessionUsers]
  /\ sent = [p \in Procs |-> Undefined]

\* One handler serves the requests one after the other.
AuthNext ==
  \/ \E c \in Clients, op \in ProtectedOps : Request(1, c, op)
  \/ Compute(1)
  \/ GameCompute(1)
  \/ UserCompute(1)
  \/ SaveOk(1)
  \/ SaveFails(1)
  \/ UserWrite(1)
  \/ Respond(1)

SpecAuth == AuthInit /\ [][AuthNext]_vars

---------------------------------------------------------------------------

\* Properties.

\* What a record counts for in the ranking: a missing playCount is 0, a
\* missing lastPlayed is the oldest time.
PlayCountOf(game) == IF game.playCount.t = "number" THEN game.playCount.v ELSE 0
LastPlayedOf(game) == IF game.lastPlayed.t = "date" THEN game.lastPlayed.v ELSE 0

ActiveIn(coll) == {i \in 1..Len(coll) : coll[i].isActive # Bool(FALSE)}
PinnedIn(coll) == {i \in 1..Len(coll) : coll[i].manualRank # Undefined}

\* C1: in a collection where no record carries a manualRank, after
\* calculateRankings the ranks of the active records are exactly 1..N, N the
\* number of active records, each rank held by one active record.
C1_Density ==
  (applied = "calculateRankings" /\ PinnedIn(input) = {}) =>
    LET N == Cardinality(ActiveIn(output))
    IN  /\ {output[i].rank : i \in ActiveIn(output)} = {Num(k) : k \in 1..N}
        /\ \A i, j \in ActiveIn(output) : i # j => output[i].rank # output[j].rank

\* Two active records were ranked next to an inactive one that keeps rank 1.
C1_Witness ==
  /\ applied = "calculateRankings"
  /\ PinnedIn(input) = {}
  /\ Cardinality(ActiveIn(output)) = 2
  /\ \E i \in 1..Len(output) : i \notin ActiveIn(output) /\ output[i].rank = Num(1)
  /\ \E i \in ActiveIn(output) : output[i].rank = Num(2)

\* C3: when the pinned records carry pairwise distinct manualRank values R,
\* after calculateRankingsWithManualOverrides no record without a manualRank
\* has a rank in R.
C3_OverrideDisjoint ==
  (/\ applied = "calculateRankingsWithManualOverrides"
   /\ \A i, j \in PinnedIn(input) : i # j => input[i].manualRank # input[j].manualRank) =>
    LET R == {output[i].manualRank : i \in PinnedIn(output)}
    IN  \A i \in 1..Len(output) : i \notin PinnedIn(output) => output[i].rank \notin R

\* Two records pinned to 2 and 1, and the unpinned one moved to 3.
C3_Witness ==
  /\ applied = "calculateRankingsWithManualOverrides"
  /\ {output[i].manualRank : i \in PinnedIn(output)} = {Num(1), Num(2)}
  /\ Cardinality(PinnedIn(output)) = 2
  /\ \E i \in 1..Len(output) : i \notin PinnedIn(output) /\ output[i].rank = Num(3)

\* C10: after calculateRankings, of two active records the one with the
\* higher playCount has the smaller rank, and with equal playCount the one
\* played more recently has the smaller rank, a record never played being
\* the oldest.
C10_Order ==
  applied = "calculateRankings" =>
    \A i, j \in ActiveIn(output) :
      /\ PlayCountOf(output[i]) > PlayCountOf(output[j]) =>
           output[i].rank.v < output[j].rank.v
      /\ (/\ PlayCountOf(output[i]) = PlayCountOf(output[j])
          /\ LastPlayedOf(output[i]) > LastPlayedOf(output[j])) =>
           output[i].rank.v < output[j].rank.v

\* Three active records with the same playCount: the one played last in the
\* input comes first, the one never played comes last although it was first
\* in the input.
C10_Witness ==
  /\ applied = "calculateRankings"
  /\ Cardinality(ActiveIn(output)) = 3
  /\ \A i \in 1..3 : PlayCountOf(input[i]) = 1
  /\ input[1].lastPlayed = Null /\ input[2].lastPlayed = Iso(1)
  /\ input[3].lastPlayed = Iso(2)
  /\ output[1].id = input[3].id /\ output[3].id = input[1].id

---------------------------------------------------------------------------
\* Properties of the server.

HasId(coll, id) == \E i \in 1..Len(coll) : coll[i].id = id
RecordOf(coll, id) == coll[FindIndex(coll, id)]

\* Handler p's save is accepted in this step.
Saves(p) == pc[p] = "saving" /\ pc'[p] = "done" /\ result'[p] = "ok"

\* C2: every stored record that carries a manualRank has rank = manualRank.
C2_PinnedKeepsRank ==
  \A i \in PinnedIn(store) : store[i].rank = store[i].manualRank

\* C4: while no two records are pinned to the same manualRank, no two
\* distinct stored records that are active or pinned share a rank.
C4_NoSharedRank ==
  (\A i, j \in PinnedIn(store) : i # j => store[i].manualRank # store[j].manualRank) =>
    \A i, j \in ActiveIn(store) \cup PinnedIn(store) :
      i # j => store[i].rank # store[j].rank

\* C5: a trackGamePlay that saves with no other save since its load raises
\* the target's playCount by exactly 1, a missing playCount counting as 0,
\* and lowers the playCount of no other record it loaded.
C5_TrackPlayAddsOne ==
  [][\A p \in Procs :
       (Saves(p) /\ req[p].op = "trackGamePlay" /\ ~stale[p]) =>
         /\ games[p] = store
         /\ \A i \in 1..Len(store) :
              /\ HasId(store', store[i].id)
              /\ IF store[i].id = req[p].gameId
                   THEN RecordOf(store', store[i].id).playCount
                          = Num(PlayCountOf(store[i]) + 1)
                   ELSE PlayCountOf(RecordOf(store', store[i].id))
                          >= PlayCountOf(store[i])]_vars

\* A game that had no playCount was played once: its stored playCount is 1.
C5_Witness ==
  \E p \in Procs :
    /\ pc[p] = "done" /\ result[p] = "ok" /\ ~stale[p] /\ lastPut = p
    /\ req[p].op = "trackGamePlay"
    /\ RecordOf(games[p], req[p].gameId).playCount = Undefined
    /\ RecordOf(store, req[p].gameId).playCount = Num(1)

\* C6: when a handler saves after another handler saved since its load, the
\* store is exactly the document it wrote; a play the other handler counted
\* on a game is absent from the store; and neither handler fails for it.
C6_LastSaveWins ==
  \A p \in Procs :
    /\ (pc[p] = "done" /\ stale[p] /\ HasId(games[p], req[p].gameId)) =>
         result[p] \in {"ok", "storage_error"}
    /\ (pc[p] = "done" /\ stale[p] /\ lastPut = p) =>
      /\ result[p] = "ok"
      /\ store = JsonGames(doc[p])
      /\ \A q \in Procs \ {p} :
           (/\ pc[q] = "done" /\ result[q] = "ok"
            /\ req[q].op = "trackGamePlay"
            /\ ~(req[p].op = "trackGamePlay" /\ req[p].gameId = req[q].gameId)) =>
             PlayCountOf(RecordOf(store, req[q].gameId))
               = PlayCountOf(RecordOf(games[p], req[q].gameId))

\* Both handlers loaded the same document; one counted a play of A and was
\* answered success, the other then saved a status change: the store holds
\* fewer plays of A than the first handler wrote.
C6_Witness ==
  \E p \in Procs, q \in Procs :
    /\ p # q
    /\ pc[p] = "done" /\ result[p] = "ok" /\ stale[p] /\ lastPut = p
    /\ pc[q] = "done" /\ result[q] = "ok"
    /\ games[p] = games[q]
    /\ req[q].op = "trackGamePlay" /\ req[p].op = "updateGameStatus"
    /\ PlayCountOf(RecordOf(store, req[q].gameId))
         < PlayCountOf(RecordOf(doc[q], req[q].gameId))

\* playCount of every stored record is a non-negative integer, and no step
\* lowers it or removes the record.
PlayCountsKept ==
  /\ \A i \in 1..Len(store') :
       store'[i].playCount = Undefined
         \/ (store'[i].playCount.t = "number" /\ store'[i].playCount.v >= 0)
  /\ \A i \in 1..Len(store) :
       /\ HasId(store', store[i].id)
       /\ PlayCountOf(RecordOf(store', store[i].id)) >= PlayCountOf(store[i])

\* C7 as stated: over any interleaving no stored playCount ever decreases.
C7_PlayCountNeverDecreases == [][PlayCountsKept]_vars

\* C7 amended: no stored playCount decreases in a step in which no handler
\* saves a document it built from a load that another save has overtaken.
C7_PlayCountKeptWithoutRace ==
  [][(\A p \in Procs : Saves(p) => ~stale[p]) => PlayCountsKept]_vars

\* Two plays of the same game, one after the other, are both in the store.
C7_Witness ==
  \E p \in Procs :
    /\ pc[p] = "done" /\ result[p] = "ok" /\ ~stale[p] /\ lastPut = p
    /\ req[p].op = "trackGamePlay"
    /\ RecordOf(store, req[p].gameId).playCount = Num(2)

\* C8: a handler of trackGamePlay, updateGameStatus or setGameRank whose
\* gameId matches no record of the collection it loaded
\* ends in the not-found error without saving: the step that ends it leaves
\* the store as it is, and it never reaches the save.
C8_NotFoundNoSave ==
  [][\A p \in Procs :
       (/\ pc[p] = "loaded"
        /\ req[p].op \in MutationOps
        /\ ~HasId(games[p], req[p].gameId)
        /\ pc'[p] # pc[p]) =>
         (pc'[p] = "done" /\ result'[p] = "not_found" /\ store' = store)]_vars

\* Each of the three operations ended not found on a collection it loaded
\* in full, and the store is still that collection.
C8_Witness ==
  \E p \in Procs :
    /\ pc[p] = "done" /\ result[p] = "not_found"
    /\ req[p].op = "setGameRank"
    /\ req[p].gameId = "Z"
    /\ Len(games[p]) = Len(GameIdSeq)
    /\ store = games[p]

\* C9: no stored record has a manualRank that is not a positive integer.
C9_ManualRankPositive ==
  \A i \in PinnedIn(store) :
    store[i].manualRank.t = "number" /\ store[i].manualRank.v >= 1

---------------------------------------------------------------------------
\* C23: calculateRankings returns the active records in sorted order
\* followed by all inactive records, the inactive ones in the relative order
\* they had in the input.
C23_ActiveThenInactive ==
  applied = "calculateRankings" =>
    LET N == Cardinality(ActiveIn(input))
    IN  /\ Len(output) = Len(input)
        /\ \A i \in 1..Len(output) : i \in ActiveIn(output) <=> i <= N
        /\ \A i, j \in 1..N : i < j => ComparePlay(output[i], output[j]) <= 0
        /\ \A i, j \in (N + 1)..Len(output) :
             i < j => FindIndex(input, output[i].id) < FindIndex(input, output[j].id)

\* One active record was ranked after two inactive ones: it comes first and
\* the inactive ones follow as they stood.
C23_Witness ==
  /\ applied = "calculateRankings"
  /\ ActiveIn(input) = {3}
  /\ output[1].id = input[3].id
  /\ output[2].id = input[1].id
  /\ output[3].id = input[2].id

\* C25: calculateRankings leaves the rank of every inactive record that has
\* a rank as it was, and gives (number of active records) + 1 to the
\* inactive records that have none, and to no other inactive record.
C25_InactiveRank ==
  applied = "calculateRankings" =>
    \A i \in 1..Len(input) :
      input[i].isActive = Bool(FALSE) =>
        RecordOf(output, input[i].id).rank =
          IF Truthy(input[i].rank)
            THEN input[i].rank
            ELSE Num(Cardinality(ActiveIn(input)) + 1)

\* Two inactive records next to one active record: the one ranked 1 keeps
\* rank 1, the one without a rank gets rank 2.
C25_Witness ==
  /\ applied = "calculateRankings"
  /\ Cardinality(ActiveIn(input)) = 1
  /\ \E i, j \in 1..Len(input) :
       /\ input[i].isActive = Bool(FALSE) /\ input[i].rank = Num(1)
       /\ RecordOf(output, input[i].id).rank = Num(1)
       /\ input[j].isActive = Bool(FALSE) /\ input[j].rank = Undefined
       /\ RecordOf(output, input[j].id).rank = Num(2)

\* C24: when two records are pinned to the same manualRank,
\* calculateRankingsWithManualOverrides leaves both with rank equal to that
\* manualRank, changes the manualRank of neither, and returns the records
\* in ascending order of their final rank.
C24_SharedPin ==
  applied = "calculateRankingsWithManualOverrides" =>
    \A i, j \in PinnedIn(input) :
      (i # j /\ input[i].manualRank = input[j].manualRank) =>
        /\ RecordOf(output, input[i].id).rank = input[i].manualRank
        /\ RecordOf(output, input[j].id).rank = input[i].manualRank
        /\ RecordOf(output, input[i].id).manualRank = input[i].manualRank
        /\ RecordOf(output, input[j].id).manualRank = input[j].manualRank
        /\ \A k \in 1..(Len(output) - 1) : output[k].rank.v <= output[k + 1].rank.v

\* The first and the last record are pinned to 2: both have rank 2 and the
\* unpinned record, with rank 1, comes before them.
C24_Witness ==
  /\ applied = "calculateRankingsWithManualOverrides"
  /\ input[1].manualRank = Num(2) /\ input[3].manualRank = Num(2)
  /\ input[2].manualRank = Undefined
  /\ output[1].id = input[2].id /\ output[1].rank = Num(1)
  /\ output[2].id = input[1].id /\ output[2].rank = Num(2)
  /\ output[3].id = input[3].id /\ output[3].rank = Num(2)

\* C26: calculateRankings and calculateRankingsWithManualOverrides return
\* exactly the records they were given, each id once, whatever the mix of
\* active, inactive, pinned and unpinned records, and change no field of a
\* record other than rank.
C26_SameRecords ==
  applied \in {"calculateRankings", "calculateRankingsWithManualOverrides"} =>
    /\ Len(output) = Len(input)
    /\ \A i \in 1..Len(input) :
         /\ Cardinality({j \in 1..Len(output) : output[j].id = input[i].id}) = 1
         /\ [RecordOf(output, input[i].id) EXCEPT !.rank = input[i].rank] = input[i]

\* calculateRankingsWithManualOverrides met an inactive pinned record, an
\* active unpinned one and one whose isActive is absent, and gave all three
\* back with new ranks.
C26_Witness ==
  /\ applied = "calculateRankingsWithManualOverrides"
  /\ input[1].isActive = Bool(FALSE) /\ input[1].manualRank = Num(1)
  /\ input[2].isActive = Bool(TRUE) /\ input[2].manualRank = Undefined
  /\ input[3].isActive = Undefined /\ input[3].manualRank = Undefined
  /\ {output[j].id : j \in 1..Len(output)} = GameIds
  /\ \A i \in 1..Len(input) : RecordOf(output, input[i].id).rank # input[i].rank

\* Properties of a repeated rank computation.

\* C11: calculateRankings applied to the collection it has just returned
\* gives every record the rank the first application gave it, also to
\* records that tie on playCount and lastPlayed; the same holds for
\* calculateRankingsWithManualOverrides.
C11_Idempotent ==
  applied \in {"calculateRankings again",
               "calculateRankingsWithManualOverrides again"} =>
    /\ Len(output) = Len(input)
    /\ \A i \in 1..Len(input) :
         /\ HasId(output, input[i].id)
         /\ RecordOf(output, input[i].id).rank = input[i].rank

\* calculateRankings was applied twice to three active records that tie on
\* playCount and lastPlayed: they keep the order and the ranks of the first
\* application.
C11_Witness ==
  /\ applied = "calculateRankings again"
  /\ Cardinality(ActiveIn(input)) = 3
  /\ \A i \in 1..3 : PlayCountOf(input[i]) = 1 /\ LastPlayedOf(input[i]) = 1
  /\ Len(output) = 3
  /\ \A i \in 1..3 : output[i].id = GameIdSeq[i] /\ output[i].rank = Num(i)

---------------------------------------------------------------------------
\* Properties of the operations on the collection they loaded.

\* Handler p has built the collection of an updateGameStatus(gameId, false)
\* from N active records that all carry a rank and no manualRank.
DeactivatesRanked(p) ==
  /\ pc[p] = "saving"
  /\ req[p].op = "updateGameStatus" /\ req[p].isActive = Bool(FALSE)
  /\ PinnedIn(games[p]) = {}
  /\ \A i \in 1..Len(games[p]) :
       IsActiveGame(games[p][i]) /\ games[p][i].rank.t = "number"

\* The other records of the collection p built hold the ranks 1..N-1, one
\* each, and the target is the last element.
OthersDenseTargetLast(p) ==
  LET N == Len(games[p])
      others == {i \in 1..Len(doc[p]) : doc[p][i].id # req[p].gameId}
  IN  /\ Len(doc[p]) = N
      /\ doc[p][N].id = req[p].gameId
      /\ {doc[p][i].rank : i \in others} = {Num(k) : k \in 1..(N - 1)}

\* C12 as stated: the deactivated record gets the overflow rank N, whatever
\* rank it held, and the other records are ranked 1..N-1.
C12_DeactivatedGetsOverflowRank ==
  \A p \in Procs :
    DeactivatesRanked(p) =>
      /\ OthersDenseTargetLast(p)
      /\ RecordOf(doc[p], req[p].gameId).rank = Num(Len(games[p]))

\* C12 amended: the deactivated record goes to the end of the collection
\* with the rank it held before, and the other records are ranked 1..N-1.
C12_DeactivatedKeepsRank ==
  \A p \in Procs :
    DeactivatesRanked(p) =>
      /\ OthersDenseTargetLast(p)
      /\ RecordOf(doc[p], req[p].gameId).rank
           = RecordOf(games[p], req[p].gameId).rank

\* The record ranked 1 of three was deactivated: it is last and still ranked
\* 1, and the record that was ranked 2 is now ranked 1 as well.
C12_Witness ==
  \E p \in Procs :
    /\ DeactivatesRanked(p)
    /\ Len(games[p]) = 3
    /\ RecordOf(games[p], req[p].gameId).rank = Num(1)
    /\ doc[p][3].id = req[p].gameId /\ doc[p][3].rank = Num(1)
    /\ doc[p][1].rank = Num(1) /\ doc[p][2].rank = Num(2)

\* Record a goes before record b in comparator order.
PlaysBefore(a, b) ==
  \/ PlayCountOf(a) > PlayCountOf(b)
  \/ PlayCountOf(a) = PlayCountOf(b) /\ LastPlayedOf(a) > LastPlayedOf(b)

\* C13: in the collection a setGameRank(gameId, r) built, the target has
\* manualRank = r and rank = r, and the records without a manualRank hold,
\* in comparator order, the smallest positive integers that no manualRank
\* claims, each once.
C13_SetRankShiftsOthers ==
  \A p \in Procs :
    (pc[p] = "saving" /\ req[p].op = "setGameRank") =>
      LET d == doc[p]
          auto == {i \in 1..Len(d) : i \notin PinnedIn(d)}
          claimed == {d[i].manualRank.v : i \in {j \in PinnedIn(d) :
                                                   d[j].manualRank.t = "number"}}
          given == {d[i].rank.v : i \in auto}
      IN  /\ RecordOf(d, req[p].gameId).manualRank = req[p].rank
          /\ RecordOf(d, req[p].gameId).rank = req[p].rank
          /\ \A i \in auto : d[i].rank.t = "number" /\ d[i].rank.v >= 1
          /\ Cardinality(given) = Cardinality(auto)
          /\ given \cap claimed = {}
          /\ \A k \in given : \A m \in 1..k : m \in given \/ m \in claimed
          /\ \A i, j \in auto :
               PlaysBefore(d[i], d[j]) => d[i].rank.v < d[j].rank.v

\* A record played less than another was pinned to 1: the other one, first
\* in comparator order, holds rank 2.
C13_Witness ==
  \E p \in Procs :
    /\ pc[p] = "saving" /\ req[p].op = "setGameRank" /\ req[p].rank = Num(1)
    /\ \E i \in 1..Len(doc[p]) :
         /\ i \notin PinnedIn(doc[p])
         /\ PlayCountOf(doc[p][i])
              > PlayCountOf(RecordOf(doc[p], req[p].gameId))
         /\ doc[p][i].rank = Num(2)

\* C14: in the collection an operation built, an inactive record without a
\* manualRank that had a rank keeps it (it is given none of the computed
\* sequence), and every rank below the rank of an active record without a
\* manualRank is held by an active record or claimed by a pinned one (no
\* slot went to an inactive record).
C14_InactiveNotRanked ==
  \A p \in Procs :
    pc[p] = "saving" =>
      LET d == doc[p]
          auto == {i \in 1..Len(d) : i \notin PinnedIn(d)}
      IN  /\ \A i \in auto \ ActiveIn(d) :
               Truthy(RecordOf(games[p], d[i].id).rank) =>
                 d[i].rank = RecordOf(games[p], d[i].id).rank
          /\ \A i \in auto \cap ActiveIn(d) :
               \A k \in 1..(d[i].rank.v - 1) :
                 \E j \in ActiveIn(d) \cup PinnedIn(d) :
                   d[j].rank = Num(k) \/ d[j].manualRank = Num(k)

\* C15: a handler whose save fails ends in the storage error, never in
\* success: the step leaves the store as it is, which is the collection the
\* handler loaded when no other handler saved meanwhile; a handler answers
\* success only in the step that writes its collection; and after the error
\* the handler only sends its response, with no second save and no other
\* write.
C15_SaveFailureReported ==
  [][\A p \in Procs :
       /\ (pc[p] = "saving" /\ pc'[p] # "saving") =>
            /\ pc'[p] = "done"
            /\ IF store' = JsonGames(doc[p]) /\ lastPut' = p
                 THEN result'[p] = "ok"
                 ELSE /\ result'[p] = "storage_error"
                      /\ store' = store
                      /\ ~stale[p] => store' = games[p]
       /\ (pc[p] = "done" /\ result[p] = "storage_error" /\ pc'[p] # "done") =>
            (pc'[p] = "idle" /\ store' = store)]_vars

\* A save failed: the handler holds the storage error and the store is still
\* the collection it loaded, not the one it built.
C15_Witness ==
  \E p \in Procs :
    /\ pc[p] = "done" /\ result[p] = "storage_error"
    /\ ~stale[p]
    /\ store = games[p]
    /\ store # JsonGames(doc[p])

\* C19: no step of a handler serving getTopGames, getAllRankedGames or
\* getGameStatistics changes the store, and such a handler never reaches a
\* save, whatever the other handler does meanwhile.
C19_QueriesNeverSave ==
  [][\A p \in Procs :
       (/\ req[p].op \in QueryOps \/ req'[p].op \in QueryOps
        /\ pc'[p] # pc[p]) =>
         (store' = store /\ pc'[p] # "saving")]_vars

\* A statistics query has answered from the collection it loaded while the
\* other handler saved a change: the store is what the other handler wrote.
C19_Witness ==
  \E p \in Procs, q \in Procs :
    /\ p # q
    /\ pc[p] = "done" /\ result[p] = "ok" /\ req[p].op = "getGameStatistics"
    /\ stale[p]
    /\ pc[q] = "done" /\ result[q] = "ok" /\ lastPut = q
    /\ store = JsonGames(doc[q])
    /\ store # games[p]

---------------------------------------------------------------------------
\* Properties of the queries.

\* The games a query with option activeOnly works on.
Filtered(loaded, activeOnly) ==
  IF activeOnly = Bool(TRUE) THEN SelectSeq(loaded, IsActiveGame) ELSE loaded

HasRank(game) == game.rank.t = "number"

\* The limit a top-games request asks for: the query parameter, 5 when it
\* is absent.
AskedLimit(r) == IF r.query = Undefined THEN 5 ELSE r.query.v

\* C16: a top-games request with limit >= 0 is answered with min(limit, n)
\* of the n games left after the filter, none of them ranked after a game
\* that was left out, in ascending order of rank; limit = 0 gives the empty
\* sequence.
C16_TopGamesLimit ==
  \A p \in Procs :
    (pc[p] = "done" /\ req[p].op = "getTopGames" /\ AskedLimit(req[p]) >= 0) =>
      LET all == Filtered(games[p], req[p].activeOnly)
          n == Len(all)
          top == doc[p]
      IN  /\ Len(top) = IF AskedLimit(req[p]) < n THEN AskedLimit(req[p]) ELSE n
          /\ \A i \in 1..Len(top) : HasId(all, top[i].id)
          /\ \A i, j \in 1..Len(top) :
               (i < j /\ HasRank(top[i]) /\ HasRank(top[j])) =>
                 top[i].rank.v <= top[j].rank.v
          /\ \A i \in 1..Len(top) : \A j \in 1..n :
               (~HasId(top, all[j].id) /\ HasRank(top[i]) /\ HasRank(all[j])) =>
                 top[i].rank.v <= all[j].rank.v

\* C17: in the answer of getTopGames, and of getAllRankedGames sorted by
\* rank ascending, no record without a rank comes before a record that has
\* a rank.
C17_MissingRankLast ==
  \A p \in Procs :
    (/\ pc[p] = "done"
     /\ \/ req[p].op = "getTopGames"
        \/ /\ req[p].op = "getAllRankedGames"
           /\ req[p].sortBy = "rank" /\ req[p].sortOrder = "asc") =>
      \A i, j \in 1..Len(doc[p]) :
        (i < j /\ HasRank(doc[p][j])) => HasRank(doc[p][i])

\* The sort field of a record is missing.
FieldMissing(game, sortBy) ==
  IF sortBy = "name"
    THEN NameOf(game) = Undefined
    ELSE game[sortBy] \in {Undefined, Null}

\* C18: in the answer of getAllRankedGames with sortOrder asc, for each
\* sortBy of rank, playCount, name and lastPlayed no record whose sort field
\* is missing comes before a record that has it; an unknown sortBy gives the
\* answer of sortBy = rank.
C18_MissingFieldLast ==
  \A p \in Procs :
    (/\ pc[p] = "done" /\ req[p].op = "getAllRankedGames"
     /\ req[p].sortOrder = "asc") =>
      IF req[p].sortBy \in {"rank", "playCount", "name", "lastPlayed"}
        THEN \A i, j \in 1..Len(doc[p]) :
               (i < j /\ ~FieldMissing(doc[p][j], req[p].sortBy)) =>
                 ~FieldMissing(doc[p][i], req[p].sortBy)
        ELSE doc[p] = getAllRankedGames(games[p], req[p].activeOnly = Bool(TRUE),
                                        "rank", "asc")

\* The plays of the first k records, a missing playCount counting as 0.
RECURSIVE PlaysOfFirst(_, _)
PlaysOfFirst(coll, k) ==
  IF k = 0 THEN 0 ELSE PlaysOfFirst(coll, k - 1) + PlayCountOf(coll[k])

\* C20: getGameStatistics returns the number of records, the number of
\* records with isActive not false, their difference, the sum of the
\* playCounts, a record no other record was played more than (none when no
\* record was played), and the integer nearest to totalPlays / totalGames (0
\* for the empty collection).
C20_Statistics ==
  applied = "getGameStatistics" =>
    LET n == Len(input)
        total == PlaysOfFirst(input, n)
        average == output.averagePlaysPerGame
    IN  /\ output.totalGames = n
        /\ output.activeGames = Cardinality(ActiveIn(input))
        /\ output.inactiveGames = n - Cardinality(ActiveIn(input))
        /\ output.totalPlays = total
        /\ IF \A i \in 1..n : PlayCountOf(input[i]) = 0
             THEN output.mostPlayedGame = Null
             ELSE \E i \in 1..n :
                    /\ output.mostPlayedGame = input[i]
                    /\ \A j \in 1..n : PlayCountOf(input[i]) >= PlayCountOf(input[j])
        /\ IF n = 0
             THEN average = 0
             ELSE /\ 2 * (average * n - total) <= n
                  /\ 2 * (total - average * n) <= n

\* Three records, one inactive, two plays in all: the average 2/3 is given
\* as 1 and the most played record is one that was played.
C20_Witness ==
  /\ applied = "getGameStatistics"
  /\ output.totalGames = 3 /\ output.inactiveGames = 1
  /\ output.totalPlays = 2
  /\ output.averagePlaysPerGame = 1
  /\ output.mostPlayedGame # Null

---------------------------------------------------------------------------
\* Properties of the games router.

\* C21: the stored collection never holds two records with the same id,
\* after any sequence of game creations, updates, deletions and ranking
\* operations.
C21_UniqueIds ==
  \A i, j \in 1..Len(store) : i # j => store[i].id # store[j].id

\* The handler loaded while the store held records and no save came between:
\* a load with nothing in it is a load that failed.
LoadFailed(p) ==
  /\ pc[p] \in {"loaded", "saving"}
  /\ games[p] = <<>>
  /\ store # <<>>
  /\ ~stale[p]

\* C27: a handler whose load failed saves no collection that omits a record
\* present in the store.
C27_FailedLoadLosesNothing ==
  [][\A p \in Procs :
       LoadFailed(p) /\ Saves(p) =>
         \A i \in 1..Len(store) : HasId(store', store[i].id)]_vars

\* C28: a successful PUT /games/:gameId leaves playCount, lastPlayed,
\* isActive, rank and manualRank of the record as stored before, and every
\* other record unchanged.
C28_UpdateKeepsRanking ==
  [][\A p \in Procs :
       Saves(p) /\ req[p].op = "updateGame" /\ ~stale[p] /\ games[p] = store =>
         /\ Len(store') = Len(store)
         /\ \A i \in 1..Len(store) :
              IF i = FindIndex(store, req[p].gameId)
                THEN \A f \in {"playCount", "lastPlayed", "isActive", "rank",
                               "manualRank"} : store'[i][f] = store[i][f]
                ELSE store'[i] = store[i]]_vars

---------------------------------------------------------------------------
\* Properties of the auth router.

\* The credentials are those of the root user or of a stored user.
ValidCredentials(email, password) ==
  \/ email = RootEmail /\ password = RootPassword
  \/ \E i \in 1..Len(users) :
       users[i].email = email /\ users[i].password = Hash(password)

\* Handler p serves a request in this step.
Serves(p) == pc[p] = "idle" /\ pc'[p] = "done"

\* C22: GET /me answers 200 with the session's user exactly when the session
\* holds a user, and 401 otherwise; the session holds a user from a login
\* with valid credentials until the next logout: a login with missing or
\* wrong credentials stores nothing, a logout leaves no user, and no request
\* changes another client's session.
C22_MeFollowsSession ==
  [][\A p \in Procs :
       Serves(p) /\ req'[p].op \in {"login", "logout", "me"} =>
         LET r == req'[p]
             c == r.client
         IN  /\ r.op = "me" =>
                  /\ session' = session
                  /\ IF session[c] # NoUser
                       THEN result'[p] = "ok" /\ sent'[p] = session[c]
                       ELSE result'[p] = "unauthenticated" /\ sent'[p] = Undefined
             /\ r.op = "login" =>
                  IF ValidCredentials(r.email, r.password)
                    THEN /\ result'[p] = "ok"
                         /\ session'[c] # NoUser
                         /\ session'[c].email = r.email
                    ELSE /\ result'[p] \in {"bad_request", "unauthenticated"}
                         /\ session'[c] = session[c]
             /\ r.op = "logout" => session'[c] = NoUser
             /\ \A d \in Clients : d # c => session'[d] = session[d]]_vars

\* Client 1 asked who it is while signed in as the stored user, and client 2
\* is signed out: the answer is 200 with that user.
C22_Witness ==
  /\ pc[1] = "done"
  /\ req[1].op = "me" /\ req[1].client = 1
  /\ result[1] = "ok"
  /\ sent[1] = [id |-> "u1", email |-> "a@x", role |-> "user"]
  /\ session[2] = NoUser

---------------------------------------------------------------------------
\* Properties of the users router.

\* Handler p leaves the step in which its read resolved.
Computes(p) == pc[p] = "loaded" /\ pc'[p] # "loaded"

\* C29: no two stored users share an email, whatever the sequence or
\* interleaving of addUser, updateUser and deleteUser; addUser with an email
\* the file holds fails with 'User with this email already exists' and
\* updateUser or deleteUser with an id the file does not hold fails with
\* 'User not found', both leaving the file as it was.
C29_UniqueEmails ==
  [][/\ \A i, j \in 1..Len(users') : i # j => users'[i].email # users'[j].email
     /\ \A p \in Procs :
          Computes(p) /\ req[p].op \in UserOps =>
            /\ (req[p].op = "addUser"
                  /\ FindUserByEmail(usersData[p], req[p].email) # 0) =>
                 result'[p] = "exists" /\ users' = users
            /\ (req[p].op \in {"updateUser", "deleteUser"}
                  /\ FindUserById(usersData[p], req[p].userId) = 0) =>
                 result'[p] = "not_found" /\ users' = users]_vars

---------------------------------------------------------------------------
\* Properties of the protected endpoints.

\* C30: a request to a session-protected mutation endpoint on a session
\* without a user is answered 401, a request to a user-management endpoint
\* on a session whose user is not root is answered 403, and a request so
\* answered writes neither the games document nor the users file.
C30_RejectedWritesNothing ==
  [][\A p \in Procs :
       /\ \A c \in Clients, op \in ProtectedOps :
            Request(p, c, op) =>
              /\ session[c] = NoUser =>
                   /\ result'[p] = "unauthenticated" /\ pc'[p] = "done"
                   /\ store' = store /\ users' = users
              /\ (op \in UserOps /\ session[c] # NoUser
                    /\ session[c].role # "root") =>
                   /\ result'[p] = "forbidden" /\ pc'[p] = "done"
                   /\ store' = store /\ users' = users
       /\ result[p] \in {"unauthenticated", "forbidden"} =>
            /\ pc[p] = "done"
            /\ store' = store /\ users' = users]_vars

\* Root, as client 2, has changed the games document; then client 1,
\* signed in as the stored user, asked to delete a user and got 403.
C30_Witness ==
  /\ started = 2
  /\ pc[1] = "done"
  /\ result[1] = "forbidden"
  /\ req[1].op = "deleteUser" /\ req[1].client = 1
  /\ session[1] # NoUser /\ session[1].role = "user"
  /\ session[2] = RootUser
  /\ store # [i \in 1..Len(GameIdSeq) |->
                Named(MigratedGames(GameIdSeq)[i], Name(1))]
  /\ users = <<StoredUser(1)>>

====
